---- MODULE Spec2Model ----
(***************************************************************************)
(* Model of Outpost/generate_sprites.py: the palette, the canvas           *)
(* primitives, the 39 sprite drawers, the asset emitter create_imageset    *)
(* and the driver main(), over a model of the output filesystem.           *)
(*                                                                         *)
(* An image is a raster [w, h, px] with px the row-major tuple of RGBA     *)
(* pixels; a path is the tuple of its components; a Python function is     *)
(* the sequence of drawing calls of its body, and calling it runs them.    *)
(***************************************************************************)
EXTENDS Integers, Sequences, FiniteSets, TLC

TILE_SIZE == 16

ASSETS_PATH == <<"Outpost", "Assets.xcassets">>

(***************************************************************************)
(* Color palette.                                                          *)
(***************************************************************************)
COLORS ==
    [ grass_light   |-> <<98, 168, 68>>,
      grass_dark    |-> <<68, 138, 48>>,
      tree_dark     |-> <<34, 82, 34>>,
      tree_light    |-> <<54, 112, 54>>,
      shrub         |-> <<78, 128, 58>>,
      plant_green   |-> <<88, 178, 88>>,
      dirt_light    |-> <<158, 118, 78>>,
      dirt_dark     |-> <<128, 88, 58>>,
      wood_light    |-> <<168, 128, 88>>,
      wood_med      |-> <<138, 98, 58>>,
      wood_dark     |-> <<108, 78, 48>>,
      bark          |-> <<88, 58, 38>>,
      stone_light   |-> <<148, 148, 148>>,
      stone_med     |-> <<118, 118, 118>>,
      stone_dark    |-> <<88, 88, 88>>,
      wall_dark     |-> <<68, 68, 68>>,
      water_light   |-> <<88, 148, 218>>,
      water_dark    |-> <<58, 118, 188>>,
      water_deep    |-> <<38, 88, 158>>,
      metal_light   |-> <<178, 178, 188>>,
      metal_dark    |-> <<128, 128, 138>>,
      gold          |-> <<218, 178, 58>>,
      gold_dark     |-> <<178, 138, 38>>,
      skin          |-> <<218, 178, 138>>,
      skin_dark     |-> <<188, 148, 108>>,
      beard_brown   |-> <<98, 68, 48>>,
      goblin_green  |-> <<88, 138, 68>>,
      goblin_dark   |-> <<58, 108, 48>>,
      wolf_gray     |-> <<128, 128, 128>>,
      wolf_dark     |-> <<88, 88, 88>>,
      bear_brown    |-> <<118, 78, 48>>,
      bear_dark     |-> <<88, 58, 38>>,
      giant_purple  |-> <<138, 108, 148>>,
      undead_pale   |-> <<158, 178, 158>>,
      undead_dark   |-> <<108, 128, 108>>,
      bread         |-> <<218, 178, 98>>,
      meat_red      |-> <<198, 78, 78>>,
      meat_dark     |-> <<158, 58, 58>>,
      ale           |-> <<168, 118, 48>>,
      fabric_red    |-> <<178, 68, 68>>,
      fabric_blue   |-> <<68, 98, 158>>,
      select_yellow |-> <<255, 238, 68>>,
      select_orange |-> <<255, 178, 38>>,
      empty         |-> <<28, 28, 38>>,
      black         |-> <<0, 0, 0>>,
      white         |-> <<255, 255, 255>> ]

(***************************************************************************)
(* A color argument is a str (a palette name) or a tuple (a literal).      *)
(***************************************************************************)
Str(name) == [isStr |-> TRUE, name |-> name, tup |-> <<>>]
Tup(t) == [isStr |-> FALSE, name |-> "", tup |-> t]

(***************************************************************************)
(* Canvas primitives.  A drawing state is [img, exc]: the image and the    *)
(* exception raised so far ("none" while there is none).  Once an          *)
(* exception is raised no later statement runs: it leaves every loop and   *)
(* every caller.                                                           *)
(***************************************************************************)
new_image ==
    [w |-> TILE_SIZE, h |-> TILE_SIZE,
     px |-> [k \in 1..(TILE_SIZE * TILE_SIZE) |-> <<0, 0, 0, 0>>]]

getpixel(img, x, y) == img.px[y * img.w + x + 1]

putpixel(img, x, y, value) == [img EXCEPT !.px[y * img.w + x + 1] = value]

\* the palette lookup made before the bounds check
draw_pixel_lookup_first(st, x, y, color) ==
    IF st.exc # "none" THEN st
    ELSE IF color.isStr /\ color.name \notin DOMAIN COLORS
         THEN [st EXCEPT !.exc = "KeyError"]
         ELSE IF 0 <= x /\ x < TILE_SIZE /\ 0 <= y /\ y < TILE_SIZE
              THEN LET c == IF color.isStr THEN COLORS[color.name] ELSE color.tup
                   IN  [st EXCEPT !.img = putpixel(st.img, x, y, c \o <<255>>)]
              ELSE st

draw_pixel(st, x, y, color) ==
    IF st.exc # "none" THEN st
    ELSE IF 0 <= x /\ x < TILE_SIZE /\ 0 <= y /\ y < TILE_SIZE
         THEN IF color.isStr /\ color.name \notin DOMAIN COLORS
              THEN [st EXCEPT !.exc = "KeyError"]
              ELSE LET c == IF color.isStr THEN COLORS[color.name] ELSE color.tup
                   IN  [st EXCEPT !.img = putpixel(st.img, x, y, c \o <<255>>)]
         ELSE st

\* for px in range(x, x + w): draw_pixel(img, px, py, color)
RECURSIVE fill_row(_, _, _, _, _)
fill_row(st, px, xend, py, color) ==
    IF px >= xend \/ st.exc # "none" THEN st
    ELSE fill_row(draw_pixel(st, px, py, color), px + 1, xend, py, color)

\* for py in range(y, y + h): <the row loop>
RECURSIVE fill_rows(_, _, _, _, _, _)
fill_rows(st, py, yend, x, w, color) ==
    IF py >= yend \/ st.exc # "none" THEN st
    ELSE fill_rows(fill_row(st, x, x + w, py, color), py + 1, yend, x, w, color)

\* both ranges taken inclusive of their end
fill_rect_inclusive(st, x, y, w, h, color) ==
    fill_rows(st, y, y + h + 1, x, w + 1, color)

fill_rect(st, x, y, w, h, color) == fill_rows(st, y, y + h, x, w, color)

(***************************************************************************)
(* The statements of a drawer body, and the Python loops that produce      *)
(* them.                                                                   *)
(***************************************************************************)
Px(x, y, color) ==
    [op |-> "draw_pixel", x |-> x, y |-> y, w |-> 0, h |-> 0, color |-> color]
Rect(x, y, w, h, color) ==
    [op |-> "fill_rect", x |-> x, y |-> y, w |-> w, h |-> h, color |-> color]
\* a direct subscript COLORS[name]
Lookup(name) ==
    [op |-> "lookup", x |-> 0, y |-> 0, w |-> 0, h |-> 0, color |-> Str(name)]

RECURSIVE Flatten(_)
Flatten(ss) == IF ss = <<>> THEN <<>> ELSE Head(ss) \o Flatten(Tail(ss))

\* for v in seq: Body(v)
For(seq, Body(_)) == Flatten([k \in 1..Len(seq) |-> Body(seq[k])])

\* range(start, stop, step) with step > 0
range3(start, stop, step) ==
    IF stop <= start THEN <<>>
    ELSE [k \in 1..(((stop - start - 1) \div step) + 1) |-> start + (k - 1) * step]

range(n) == range3(0, n, 1)

Exec(st, c) ==
    IF c.op = "fill_rect" THEN fill_rect(st, c.x, c.y, c.w, c.h, c.color)
    ELSE IF c.op = "draw_pixel" THEN draw_pixel(st, c.x, c.y, c.color)
    ELSE IF st.exc = "none" /\ c.color.name \notin DOMAIN COLORS
         THEN [st EXCEPT !.exc = "KeyError"]
         ELSE st

RECURSIVE RunFrom(_, _, _)
RunFrom(st, body, k) ==
    IF k > Len(body) \/ st.exc # "none" THEN st
    ELSE RunFrom(Exec(st, body[k]), body, k + 1)

\* func(): img = new_image(); <body>; return img
Call(func) == RunFrom([img |-> new_image, exc |-> "none"], func, 1)

(***************************************************************************)
(* Terrain sprites.  Each drawer is the sequence of statements of its      *)
(* body, in program order.                                                 *)
(***************************************************************************)
\* terrain_empty_air without its base fill: only the five marks are drawn
terrain_empty_air_marks_only ==
    For(<< <<3, 4>>, <<8, 2>>, <<12, 7>>, <<5, 12>>, <<14, 11>> >>,
        LAMBDA pos: << Px(pos[1], pos[2], Tup(SubSeq(<<48, 48, 58, 255>>, 1, 3))) >>)

terrain_empty_air ==
    << Rect(0, 0, 16, 16, Str("empty")) >>
    \o For(<< <<3, 4>>, <<8, 2>>, <<12, 7>>, <<5, 12>>, <<14, 11>> >>,
           LAMBDA pos: << Px(pos[1], pos[2], Tup(SubSeq(<<48, 48, 58, 255>>, 1, 3))) >>)

terrain_grass ==
    << Rect(0, 0, 16, 16, Str("grass_dark")) >>
    \o For(range(16), LAMBDA y:
         For(range(16), LAMBDA x:
           IF (x + y) % 3 = 0 THEN << Px(x, y, Str("grass_light")) >> ELSE <<>>))
    \o For(<<1, 4, 7, 10, 13>>, LAMBDA x:
         << Px(x, 0, Str("grass_light")), Px(x + 1, 1, Str("grass_light")) >>)

terrain_dirt ==
    << Rect(0, 0, 16, 16, Str("dirt_dark")) >>
    \o For(range(16), LAMBDA y:
         For(range(16), LAMBDA x:
           IF (x * 3 + y * 7) % 5 = 0 THEN << Px(x, y, Str("dirt_light")) >> ELSE <<>>))
    \o For(<< <<3, 5>>, <<10, 8>>, <<6, 12>> >>,
           LAMBDA pos: << Px(pos[1], pos[2], Str("stone_med")) >>)

terrain_stone ==
    << Rect(0, 0, 16, 16, Str("stone_med")) >>
    \o For(range(16), LAMBDA y:
         For(range(16), LAMBDA x:
           IF (x * 5 + y * 3) % 7 = 0 THEN << Px(x, y, Str("stone_dark")) >>
           ELSE IF (x * 2 + y * 5) % 9 = 0 THEN << Px(x, y, Str("stone_light")) >>
           ELSE <<>>))

terrain_water ==
    << Rect(0, 0, 16, 16, Str("water_dark")) >>
    \o For(range3(0, 16, 4), LAMBDA y:
         For(range(16), LAMBDA x:
           IF (x + (y \div 4)) % 4 < 2
           THEN << Px(x, y, Str("water_light")), Px(x, y + 1, Str("water_light")) >>
           ELSE <<>>))
    \o For(<< <<2, 3>>, <<8, 7>>, <<13, 11>> >>,
           LAMBDA pos: << Px(pos[1], pos[2], Tup(<<128, 188, 238>>)) >>)

terrain_tree ==
    << Rect(0, 0, 16, 16, Str("grass_dark")),
       Rect(6, 10, 4, 6, Str("bark")),
       Rect(7, 11, 2, 4, Str("wood_dark")),
       Rect(3, 2, 10, 9, Str("tree_dark")),
       Rect(2, 4, 12, 5, Str("tree_dark")),
       Rect(4, 3, 4, 4, Str("tree_light")),
       Px(5, 4, Str("shrub")) >>

terrain_shrub ==
    << Rect(0, 0, 16, 16, Str("grass_dark")),
       Rect(3, 6, 10, 8, Str("shrub")),
       Rect(5, 4, 6, 4, Str("shrub")) >>
    \o For(<< <<5, 7>>, <<8, 5>>, <<10, 8>> >>,
           LAMBDA pos: << Px(pos[1], pos[2], Str("grass_light")) >>)
    \o For(<< <<6, 9>>, <<9, 7>>, <<11, 10>> >>,
           LAMBDA pos: << Px(pos[1], pos[2], Tup(<<198, 58, 58>>)) >>)

\* the base fill drawn after the rock face texture instead of before it
terrain_wall_base_last ==
    << Rect(0, 0, 8, 6, Str("stone_dark")),
       Rect(8, 0, 8, 8, Str("stone_med")),
       Rect(0, 6, 10, 6, Str("stone_med")),
       Rect(10, 8, 6, 8, Str("stone_dark")),
       Rect(0, 0, 16, 16, Str("wall_dark")) >>
    \o For(<< <<4, 3>>, <<12, 5>>, <<6, 10>>, <<3, 13>> >>,
           LAMBDA pos: << Px(pos[1], pos[2], Str("black")) >>)

terrain_wall ==
    << Rect(0, 0, 16, 16, Str("wall_dark")),
       Rect(0, 0, 8, 6, Str("stone_dark")),
       Rect(8, 0, 8, 8, Str("stone_med")),
       Rect(0, 6, 10, 6, Str("stone_med")),
       Rect(10, 8, 6, 8, Str("stone_dark")) >>
    \o For(<< <<4, 3>>, <<12, 5>>, <<6, 10>>, <<3, 13>> >>,
           LAMBDA pos: << Px(pos[1], pos[2], Str("black")) >>)

terrain_ore ==
    << Rect(0, 0, 16, 16, Str("stone_dark")),
       Rect(2, 3, 4, 3, Str("gold")),
       Rect(9, 7, 5, 4, Str("gold")),
       Rect(4, 11, 3, 3, Str("gold")) >>
    \o For(<< <<3, 4>>, <<11, 8>>, <<5, 12>> >>,
           LAMBDA pos: << Px(pos[1], pos[2], Str("gold_dark")) >>)
    \o For(<< <<4, 3>>, <<10, 9>>, <<6, 11>> >>,
           LAMBDA pos: << Px(pos[1], pos[2], Str("white")) >>)

terrain_wooden_floor ==
    << Rect(0, 0, 16, 16, Str("wood_med")) >>
    \o For(<<0, 4, 8, 12>>, LAMBDA y: << Rect(0, y, 16, 1, Str("wood_dark")) >>)
    \o For(range(16), LAMBDA y:
         For(range(16), LAMBDA x:
           IF (x + y * 3) % 8 = 0 THEN << Px(x, y, Str("wood_light")) >> ELSE <<>>))

terrain_stone_floor ==
    << Rect(0, 0, 16, 16, Str("stone_light")) >>
    \o For(<<0, 8>>, LAMBDA y: << Rect(0, y, 16, 1, Str("stone_dark")) >>)
    \o For(<<0, 8>>, LAMBDA x: << Rect(x, 0, 1, 16, Str("stone_dark")) >>)
    \o << Rect(1, 1, 6, 6, Str("stone_med")),
          Rect(9, 9, 6, 6, Str("stone_med")) >>

terrain_constructed_wall ==
    << Rect(0, 0, 16, 16, Str("stone_med")) >>
    \o For(range3(0, 16, 4), LAMBDA y:
         << Rect(0, y, 16, 1, Str("stone_dark")) >>
         \o LET offset == IF (y \div 4) % 2 = 0 THEN 4 ELSE 0
            IN  For(range3(offset, 16, 8), LAMBDA x:
                  << Rect(x, y, 1, 4, Str("stone_dark")) >>))

terrain_stairs_up ==
    << Rect(0, 0, 16, 16, Str("stone_dark")) >>
    \o For(range(4), LAMBDA i:
         LET y == <<12, 8, 4, 0>>[i + 1]
         IN  << Rect(0, y, 16, 4, Str(IF i % 2 = 0 THEN "stone_med" ELSE "stone_light")),
                Rect(0, y, 16, 1, Str("stone_dark")) >>)
    \o << Rect(7, 5, 2, 6, Str("white")) >>
    \o For(range(3), LAMBDA i:
         << Px(7 - i, 5 + i, Str("white")), Px(8 + i, 5 + i, Str("white")) >>)

terrain_stairs_down ==
    << Rect(0, 0, 16, 16, Str("stone_dark")) >>
    \o For(range(4), LAMBDA i:
         LET y == <<0, 4, 8, 12>>[i + 1]
         IN  << Rect(0, y, 16, 4, Str(IF i % 2 = 0 THEN "stone_med" ELSE "stone_light")),
                Rect(0, y + 3, 16, 1, Str("stone_dark")) >>)
    \o << Rect(7, 5, 2, 6, Str("white")) >>
    \o For(range(3), LAMBDA i:
         << Px(7 - i, 11 - i, Str("white")), Px(8 + i, 11 - i, Str("white")) >>)

terrain_stairs_updown ==
    << Rect(0, 0, 16, 16, Str("stone_med")) >>
    \o For(<<0, 4, 8, 12>>, LAMBDA y: << Rect(0, y, 16, 1, Str("stone_dark")) >>)
    \o << Rect(3, 4, 2, 8, Str("white")),
          Px(2, 5, Str("white")),
          Px(5, 5, Str("white")),
          Rect(11, 4, 2, 8, Str("white")),
          Px(10, 11, Str("white")),
          Px(13, 11, Str("white")) >>

terrain_ramp_up ==
    << Rect(0, 0, 16, 16, Str("stone_dark")) >>
    \o For(range(16), LAMBDA i: << Rect(0, 15 - i, i + 1, 1, Str("stone_med")) >>)
    \o For(range(14), LAMBDA i: << Px(i, 14 - i, Str("stone_light")) >>)

terrain_ramp_down ==
    << Rect(0, 0, 16, 16, Str("stone_dark")) >>
    \o For(range(16), LAMBDA i: << Rect(15 - i, 15 - i, i + 1, 1, Str("stone_med")) >>)
    \o For(range(14), LAMBDA i: << Px(15 - i, 14 - i, Str("stone_light")) >>)

(***************************************************************************)
(* Creature, item and UI sprites.                                          *)
(***************************************************************************)
creature_dwarf ==
    << Rect(4, 7, 8, 6, Str("fabric_blue")),
       Rect(5, 2, 6, 5, Str("skin")),
       Rect(5, 5, 6, 4, Str("beard_brown")),
       Rect(6, 8, 4, 2, Str("beard_brown")),
       Px(6, 3, Str("black")),
       Px(9, 3, Str("black")),
       Rect(5, 1, 6, 2, Str("metal_dark")),
       Px(7, 0, Str("metal_light")),
       Px(8, 0, Str("metal_light")),
       Rect(5, 13, 2, 3, Str("skin_dark")),
       Rect(9, 13, 2, 3, Str("skin_dark")),
       Rect(2, 8, 2, 4, Str("skin")),
       Rect(12, 8, 2, 4, Str("skin")) >>

creature_goblin ==
    << Rect(5, 6, 6, 7, Str("goblin_dark")),
       Rect(4, 1, 8, 6, Str("goblin_green")),
       Px(3, 2, Str("goblin_green")),
       Px(12, 2, Str("goblin_green")),
       Px(5, 3, Tup(<<255, 68, 68>>)),
       Px(10, 3, Tup(<<255, 68, 68>>)),
       Rect(6, 5, 4, 1, Str("black")),
       Rect(5, 13, 2, 3, Str("goblin_dark")),
       Rect(9, 13, 2, 3, Str("goblin_dark")),
       Rect(3, 7, 2, 4, Str("goblin_green")),
       Rect(11, 7, 2, 4, Str("goblin_green")) >>

\* the body color name misspelled
creature_wolf_typo ==
    << Rect(2, 7, 12, 5, Str("wolf_grey")),
       Rect(11, 4, 5, 5, Str("wolf_gray")),
       Rect(14, 6, 2, 2, Str("wolf_dark")),
       Px(12, 3, Str("wolf_dark")),
       Px(14, 3, Str("wolf_dark")),
       Px(13, 5, Str("black")),
       Rect(3, 12, 2, 4, Str("wolf_dark")),
       Rect(7, 12, 2, 4, Str("wolf_dark")),
       Rect(11, 10, 2, 4, Str("wolf_dark")),
       Rect(0, 6, 3, 2, Str("wolf_gray")) >>

creature_wolf ==
    << Rect(2, 7, 12, 5, Str("wolf_gray")),
       Rect(11, 4, 5, 5, Str("wolf_gray")),
       Rect(14, 6, 2, 2, Str("wolf_dark")),
       Px(12, 3, Str("wolf_dark")),
       Px(14, 3, Str("wolf_dark")),
       Px(13, 5, Str("black")),
       Rect(3, 12, 2, 4, Str("wolf_dark")),
       Rect(7, 12, 2, 4, Str("wolf_dark")),
       Rect(11, 10, 2, 4, Str("wolf_dark")),
       Rect(0, 6, 3, 2, Str("wolf_gray")) >>

creature_bear ==
    << Rect(2, 5, 12, 8, Str("bear_brown")),
       Rect(10, 2, 6, 6, Str("bear_brown")),
       Rect(13, 4, 3, 3, Str("bear_dark")),
       Px(15, 5, Str("black")),
       Rect(10, 1, 2, 2, Str("bear_dark")),
       Rect(14, 1, 2, 2, Str("bear_dark")),
       Px(11, 3, Str("black")),
       Rect(3, 13, 3, 3, Str("bear_dark")),
       Rect(8, 13, 3, 3, Str("bear_dark")) >>

creature_giant ==
    << Rect(3, 4, 10, 10, Str("giant_purple")),
       Rect(5, 0, 6, 5, Str("giant_purple")),
       Px(6, 2, Tup(<<255, 255, 128>>)),
       Px(9, 2, Tup(<<255, 255, 128>>)),
       Rect(7, 3, 2, 1, Str("black")),
       Rect(4, 14, 3, 2, Tup(<<108, 78, 118>>)),
       Rect(9, 14, 3, 2, Tup(<<108, 78, 118>>)),
       Rect(1, 5, 2, 6, Str("giant_purple")),
       Rect(13, 5, 2, 6, Str("giant_purple")) >>

creature_undead ==
    << Rect(5, 6, 6, 8, Str("undead_dark")),
       Rect(5, 1, 6, 6, Str("undead_pale")),
       Rect(6, 2, 2, 2, Str("black")),
       Rect(9, 2, 2, 2, Str("black")),
       Px(6, 2, Tup(<<158, 255, 158>>)),
       Px(9, 2, Tup(<<158, 255, 158>>)),
       Rect(7, 5, 2, 1, Str("black")),
       Rect(3, 7, 2, 5, Str("undead_pale")),
       Rect(11, 7, 2, 5, Str("undead_pale")),
       Rect(5, 14, 2, 2, Str("undead_dark")),
       Rect(9, 14, 2, 2, Str("undead_dark")) >>

item_food ==
    << Rect(3, 6, 10, 6, Str("bread")),
       Rect(4, 5, 8, 2, Str("bread")),
       Rect(5, 6, 6, 2, Tup(<<238, 198, 118>>)),
       Px(6, 7, Str("wood_med")),
       Px(9, 7, Str("wood_med")) >>

item_drink ==
    << Rect(4, 4, 8, 10, Str("wood_med")),
       Rect(5, 5, 6, 8, Str("ale")),
       Rect(12, 6, 2, 6, Str("wood_dark")),
       Rect(13, 7, 1, 4, Str("wood_dark")),
       Rect(5, 4, 6, 2, Str("white")) >>

item_raw_meat ==
    << Rect(3, 5, 10, 8, Str("meat_red")),
       Rect(4, 4, 8, 2, Str("meat_red")),
       Rect(5, 7, 3, 2, Str("white")),
       Rect(9, 9, 2, 2, Str("white")),
       Rect(3, 11, 10, 2, Str("meat_dark")) >>

item_plant ==
    << Rect(7, 6, 2, 10, Str("shrub")),
       Rect(4, 4, 3, 4, Str("plant_green")),
       Rect(9, 3, 4, 3, Str("plant_green")),
       Rect(5, 8, 3, 3, Str("plant_green")),
       Rect(10, 7, 3, 3, Str("plant_green")) >>

item_bed ==
    << Rect(1, 10, 14, 4, Str("wood_dark")),
       Rect(2, 6, 12, 5, Str("fabric_red")),
       Rect(2, 4, 4, 3, Str("white")),
       Rect(2, 8, 12, 1, Tup(<<148, 48, 48>>)) >>

item_table ==
    << Rect(1, 5, 14, 3, Str("wood_med")),
       Rect(0, 5, 16, 1, Str("wood_light")),
       Rect(2, 8, 2, 8, Str("wood_dark")),
       Rect(12, 8, 2, 8, Str("wood_dark")) >>

item_chair ==
    << Rect(5, 2, 6, 7, Str("wood_med")),
       Rect(6, 3, 4, 5, Str("wood_light")),
       Rect(4, 9, 8, 2, Str("wood_med")),
       Rect(4, 11, 2, 5, Str("wood_dark")),
       Rect(10, 11, 2, 5, Str("wood_dark")) >>

item_door ==
    << Rect(2, 0, 12, 16, Str("wood_dark")),
       Rect(3, 1, 10, 6, Str("wood_med")),
       Rect(3, 9, 10, 6, Str("wood_med")),
       Rect(10, 8, 2, 2, Str("metal_light")),
       Rect(3, 3, 1, 2, Str("metal_dark")),
       Rect(3, 11, 1, 2, Str("metal_dark")) >>

item_barrel ==
    << Rect(3, 2, 10, 12, Str("wood_med")),
       Rect(4, 1, 8, 2, Str("wood_med")),
       Rect(4, 13, 8, 2, Str("wood_med")),
       Rect(3, 4, 10, 1, Str("metal_dark")),
       Rect(3, 11, 10, 1, Str("metal_dark")) >>
    \o For(<<5, 8, 11>>, LAMBDA x: << Rect(x, 2, 1, 12, Str("wood_dark")) >>)

item_bin ==
    << Rect(2, 5, 12, 9, Str("wood_med")),
       Rect(3, 6, 10, 7, Str("wood_dark")),
       Rect(1, 4, 14, 2, Str("wood_light")) >>

item_pickaxe ==
    << Rect(2, 3, 2, 12, Str("wood_dark")),
       Rect(4, 2, 10, 3, Str("metal_light")),
       Rect(12, 1, 3, 2, Str("metal_light")),
       Rect(12, 4, 3, 2, Str("metal_light")),
       Px(14, 1, Str("white")),
       Px(14, 5, Str("white")) >>

item_axe ==
    << Rect(3, 3, 2, 12, Str("wood_dark")),
       Rect(5, 2, 6, 6, Str("metal_light")),
       Rect(9, 3, 4, 4, Str("metal_light")),
       Rect(11, 3, 2, 4, Str("metal_dark")),
       Px(12, 4, Str("white")),
       Px(12, 5, Str("white")) >>

item_log ==
    << Rect(1, 5, 14, 7, Str("wood_med")),
       Rect(1, 5, 14, 2, Str("bark")),
       Rect(1, 10, 14, 2, Str("bark")),
       Rect(13, 6, 2, 5, Str("wood_light")),
       Px(14, 8, Str("wood_dark")) >>

item_stone ==
    << Rect(3, 5, 10, 8, Str("stone_med")),
       Rect(4, 4, 8, 2, Str("stone_med")),
       Rect(5, 12, 6, 2, Str("stone_med")),
       Rect(5, 6, 4, 3, Str("stone_light")),
       Rect(9, 9, 3, 3, Str("stone_dark")) >>

item_ore ==
    << Rect(3, 5, 10, 8, Str("stone_dark")),
       Rect(4, 4, 8, 2, Str("stone_dark")),
       Rect(5, 6, 3, 3, Str("gold")),
       Rect(9, 8, 3, 3, Str("gold")),
       Px(6, 7, Str("white")),
       Px(10, 9, Str("white")) >>

ui_selection ==
    LET c == COLORS["select_yellow"]
    IN  << Lookup("select_yellow") >>
        \o For(range(4), LAMBDA i: << Px(i, 0, Tup(c)), Px(0, i, Tup(c)) >>)
        \o For(range(4), LAMBDA i: << Px(15 - i, 0, Tup(c)), Px(15, i, Tup(c)) >>)
        \o For(range(4), LAMBDA i: << Px(i, 15, Tup(c)), Px(0, 15 - i, Tup(c)) >>)
        \o For(range(4), LAMBDA i: << Px(15 - i, 15, Tup(c)), Px(15, 15 - i, Tup(c)) >>)

(***************************************************************************)
(* The output filesystem: the set of directories and the content of every  *)
(* file, by path.  The working directory <<>> always exists.               *)
(***************************************************************************)
join(path, name) == Append(path, name)

dirname(path) == SubSeq(path, 1, Len(path) - 1)

EmptyRoot == [dirs |-> {<<>>}, files |-> <<>>]

\* the entries of directory path
listdir(f, path) ==
    { q[Len(q)] : q \in { e \in f.dirs \cup DOMAIN f.files :
                            Len(e) = Len(path) + 1 /\ dirname(e) = path } }

\* os.makedirs(path) without exist_ok: an existing directory is an error
makedirs_exclusive(f, path, exist_ok) ==
    LET parents == { SubSeq(path, 1, k) : k \in 0..Len(path) }
    IN  IF path \in f.dirs \/ path \in DOMAIN f.files
        THEN [fs |-> f, exc |-> "FileExistsError"]
        ELSE IF parents \cap DOMAIN f.files # {}
        THEN [fs |-> f, exc |-> "NotADirectoryError"]
        ELSE [fs |-> [f EXCEPT !.dirs = @ \cup parents], exc |-> "none"]

\* os.makedirs(path, exist_ok=exist_ok): the directory and its missing parents
makedirs(f, path, exist_ok) ==
    LET parents == { SubSeq(path, 1, k) : k \in 0..Len(path) }
    IN  IF path \in f.dirs
        THEN IF exist_ok THEN [fs |-> f, exc |-> "none"]
             ELSE [fs |-> f, exc |-> "FileExistsError"]
        ELSE IF parents \cap DOMAIN f.files # {}
        THEN [fs |-> f, exc |-> IF path \in DOMAIN f.files THEN "FileExistsError"
                                ELSE "NotADirectoryError"]
        ELSE [fs |-> [f EXCEPT !.dirs = @ \cup parents], exc |-> "none"]

\* open(path, "w") and the write of content: creates or overwrites the file
write_file(f, path, content) ==
    IF path \in f.dirs THEN [fs |-> f, exc |-> "IsADirectoryError"]
    ELSE IF dirname(path) \notin f.dirs THEN [fs |-> f, exc |-> "FileNotFoundError"]
    ELSE [fs |-> [f EXCEPT !.files = (path :> content) @@ @], exc |-> "none"]

\* json.dump(contents, f, indent=2)
json_dump(contents) == [fmt |-> "json", data |-> contents]

\* the check value of pixels lo..hi of a raster, as a PNG file carries one
\* over its image data: it depends on every pixel and on their order
RECURSIVE Checksum(_, _, _)
Checksum(px, lo, hi) ==
    IF hi < lo THEN 1
    ELSE IF lo = hi
    THEN ((px[lo][1] * 65536 + px[lo][2] * 256 + px[lo][3]) * 7 + px[lo][4]) % 1000003
    ELSE LET mid == (lo + hi) \div 2
         IN  (Checksum(px, lo, mid) * 257 + Checksum(px, mid + 1, hi) * 31 + 7) % 1000003

\* Image.save(path) of a .png path: the file holds the image's size and its
\* pixel data, kept here as the check value of the data
png_save(img) ==
    [fmt |-> "png",
     data |-> [size |-> <<img.w, img.h>>, crc |-> Checksum(img.px, 1, Len(img.px))]]

\* what open(path, "w") leaves when the write after it fails
Truncated == [fmt |-> "truncated", data |-> <<>>]

(***************************************************************************)
(* create_imageset and create_folder_contents.                             *)
(***************************************************************************)
\* image.resize(size, Image.NEAREST): each output pixel takes the source
\* pixel under its centre
\* the source row and column swapped
resize_transposed(image, size) ==
    [w |-> size[1], h |-> size[2],
     px |-> [k \in 1..(size[1] * size[2]) |->
               LET ox == (k - 1) % size[1]
                   oy == (k - 1) \div size[1]
                   sx == ((2 * ox + 1) * image.w) \div (2 * size[1])
                   sy == ((2 * oy + 1) * image.h) \div (2 * size[2])
               IN  getpixel(image, sy, sx)]]

resize(image, size) ==
    [w |-> size[1], h |-> size[2],
     px |-> [k \in 1..(size[1] * size[2]) |->
               LET ox == (k - 1) % size[1]
                   oy == (k - 1) \div size[1]
                   sx == ((2 * ox + 1) * image.w) \div (2 * size[1])
                   sy == ((2 * oy + 1) * image.h) \div (2 * size[2])
               IN  getpixel(image, sx, sy)]]

Scales == <<1, 2, 3>>

scaled_img(image, scale) ==
    LET scaled_size == TILE_SIZE * scale
    IN  resize(image, <<scaled_size, scaled_size>>)

\* the 1x file given a scale suffix too
suffix_every_scale(scale) == "@" \o ToString(scale) \o "x"

suffix(scale) == IF scale = 1 THEN "" ELSE "@" \o ToString(scale) \o "x"

\* the .imageset folder left out of the path
folder_path_flat(name, category) == join(ASSETS_PATH, category)

folder_path(name, category) ==
    join(join(ASSETS_PATH, category), name \o ".imageset")

image_path(name, category, scale) ==
    join(folder_path(name, category), name \o suffix(scale) \o ".png")

imageset_contents(name) ==
    [ images |-> << [filename |-> name \o ".png", idiom |-> "universal", scale |-> "1x"],
                    [filename |-> name \o "@2x.png", idiom |-> "universal", scale |-> "2x"],
                    [filename |-> name \o "@3x.png", idiom |-> "universal", scale |-> "3x"] >>,
      info |-> [author |-> "xcode", version |-> 1] ]

folder_contents ==
    [ info |-> [author |-> "xcode", version |-> 1],
      properties |-> ("provides-namespace" :> TRUE) ]

(***************************************************************************)
(* main(): the category list and the sprite tables, in declared order.     *)
(***************************************************************************)
Categories == <<"Terrain", "Creatures", "Items", "UI">>

terrain_sprites ==
    << <<"terrain_empty_air", terrain_empty_air>>,
       <<"terrain_grass", terrain_grass>>,
       <<"terrain_dirt", terrain_dirt>>,
       <<"terrain_stone", terrain_stone>>,
       <<"terrain_water", terrain_water>>,
       <<"terrain_tree", terrain_tree>>,
       <<"terrain_shrub", terrain_shrub>>,
       <<"terrain_wall", terrain_wall>>,
       <<"terrain_ore", terrain_ore>>,
       <<"terrain_wooden_floor", terrain_wooden_floor>>,
       <<"terrain_stone_floor", terrain_stone_floor>>,
       <<"terrain_constructed_wall", terrain_constructed_wall>>,
       <<"terrain_stairs_up", terrain_stairs_up>>,
       <<"terrain_stairs_down", terrain_stairs_down>>,
       <<"terrain_stairs_updown", terrain_stairs_updown>>,
       <<"terrain_ramp_up", terrain_ramp_up>>,
       <<"terrain_ramp_down", terrain_ramp_down>> >>

creature_sprites ==
    << <<"creature_dwarf", creature_dwarf>>,
       <<"creature_goblin", creature_goblin>>,
       <<"creature_wolf", creature_wolf>>,
       <<"creature_bear", creature_bear>>,
       <<"creature_giant", creature_giant>>,
       <<"creature_undead", creature_undead>> >>

item_sprites ==
    << <<"item_food", item_food>>,
       <<"item_drink", item_drink>>,
       <<"item_raw_meat", item_raw_meat>>,
       <<"item_plant", item_plant>>,
       <<"item_bed", item_bed>>,
       <<"item_table", item_table>>,
       <<"item_chair", item_chair>>,
       <<"item_door", item_door>>,
       <<"item_barrel", item_barrel>>,
       <<"item_bin", item_bin>>,
       <<"item_pickaxe", item_pickaxe>>,
       <<"item_axe", item_axe>>,
       <<"item_log", item_log>>,
       <<"item_stone", item_stone>>,
       <<"item_ore", item_ore>> >>

\* the single UI sprite main generates after the three loops
ui_sprites == << <<"ui_selection", ui_selection>> >>

\* the creature loop placed before the terrain loop
Blocks_creatures_first ==
    << [category |-> "Creatures", sprites |-> creature_sprites],
       [category |-> "Terrain", sprites |-> terrain_sprites],
       [category |-> "Items", sprites |-> item_sprites],
       [category |-> "UI", sprites |-> ui_sprites] >>

\* the four generation blocks of main, in program order
Blocks ==
    << [category |-> "Terrain", sprites |-> terrain_sprites],
       [category |-> "Creatures", sprites |-> creature_sprites],
       [category |-> "Items", sprites |-> item_sprites],
       [category |-> "UI", sprites |-> ui_sprites] >>

DoneMessage == "\nDone! Generated all sprites in Assets.xcassets"

(***************************************************************************)
(* State.                                                                  *)
(*   fs       the output filesystem                                        *)
(*   prev_fs  the filesystem the previous run of main() left               *)
(*   pc       where main() is: [at, block, i, scale]                       *)
(*   image    the canvas the current drawer returned                       *)
(*   stdout   the lines the current run printed                            *)
(*   exc      the exception that ended the current run, "none" if none     *)
(*   run      the number of the current run of main()                      *)
(*   trace    what the current run did so far, in order                    *)
(* and, for the canvas primitives called on their own:                     *)
(*   canvas   the drawing state [img, exc] the call left                   *)
(*   before   the image the call was made on                               *)
(*   call     the call made: [fn, x, y, w, h, color, scale]                *)
(*   scaled   the image a resize call returned                             *)
(***************************************************************************)
VARIABLES fs, prev_fs, pc, image, stdout, exc, run, trace,
          canvas, before, call, scaled

vars == <<fs, prev_fs, pc, image, stdout, exc, run, trace,
          canvas, before, call, scaled>>

mainVars == <<fs, prev_fs, pc, image, stdout, exc, run, trace>>

primVars == <<canvas, before, call, scaled>>

MaxRuns == 2

NoImage == [w |-> 0, h |-> 0, px |-> <<>>]

NoCall == [fn |-> "none", x |-> 0, y |-> 0, w |-> 0, h |-> 0,
           color |-> Str(""), scale |-> 0]

Start == [at |-> "main_makedirs", block |-> 1, i |-> 1, scale |-> 1]

MainInit ==
    /\ fs = EmptyRoot
    /\ prev_fs = EmptyRoot
    /\ pc = Start
    /\ image = NoImage
    /\ stdout = <<>>
    /\ exc = "none"
    /\ run = 1
    /\ trace = <<>>

PrimIdle ==
    /\ canvas = [img |-> NoImage, exc |-> "none"]
    /\ before = NoImage
    /\ call = NoCall
    /\ scaled = NoImage

Init == MainInit /\ PrimIdle

Event(ev, arg) == [ev |-> ev, arg |-> arg]

\* the current sprite of main's loops
Entry == Blocks[pc.block].sprites[pc.i]
name == Entry[1]
func == Entry[2]
category == Blocks[pc.block].category

\* the exception caught and dropped around the loops: main goes on to its
\* final print
Propagate_caught(p) == [p EXCEPT !.at = "finish"]

\* an exception nothing catches leaves main(): the run ends there
Propagate(p) == [p EXCEPT !.at = "aborted"]

Raise(e) ==
    /\ exc' = e
    /\ pc' = Propagate(pc)

\* lines 689-692, os.makedirs(path, exist_ok=True)
MainMakedirs ==
    /\ pc.at = "main_makedirs"
    /\ LET path == join(ASSETS_PATH, Categories[pc.i])
           r == makedirs(fs, path, TRUE)
       IN  IF r.exc = "none"
           THEN /\ fs' = r.fs
                /\ pc' = [pc EXCEPT !.at = "create_folder_contents"]
                /\ trace' = Append(trace, Event("makedirs", Categories[pc.i]))
                /\ exc' = exc
           ELSE /\ Raise(r.exc)
                /\ UNCHANGED <<fs, trace>>
    /\ UNCHANGED <<prev_fs, image, stdout, run>>
    /\ UNCHANGED primVars

\* lines 38-45 called from line 692
CreateFolderContents ==
    /\ pc.at = "create_folder_contents"
    /\ LET path == join(ASSETS_PATH, Categories[pc.i])
           r == write_file(fs, join(path, "Contents.json"), json_dump(folder_contents))
       IN  IF r.exc = "none"
           THEN /\ fs' = r.fs
                /\ pc' = IF pc.i < Len(Categories)
                         THEN [pc EXCEPT !.at = "main_makedirs", !.i = @ + 1]
                         ELSE [pc EXCEPT !.at = "generate", !.block = 1, !.i = 1]
                /\ trace' = Append(trace, Event("folder_contents", Categories[pc.i]))
                /\ exc' = exc
           ELSE /\ Raise(r.exc)
                /\ UNCHANGED <<fs, trace>>
    /\ UNCHANGED <<prev_fs, image, stdout, run>>
    /\ UNCHANGED primVars

\* print(f"Generating {name}...") and the argument func() of create_imageset
Generate ==
    /\ pc.at = "generate"
    /\ stdout' = Append(stdout, "Generating " \o name \o "...")
    /\ LET r == Call(func)
       IN  IF r.exc = "none"
           THEN /\ image' = r.img
                /\ pc' = [pc EXCEPT !.at = "imageset_makedirs"]
                /\ trace' = Append(trace, Event("draw", name))
                /\ exc' = exc
           ELSE /\ Raise(r.exc)
                /\ UNCHANGED <<image, trace>>
    /\ UNCHANGED <<fs, prev_fs, run>>
    /\ UNCHANGED primVars

\* create_imageset with the Contents.json block placed before the scale
\* loop: the descriptor is on disk before any image is
ImagesetMakedirs_contents_first ==
    /\ pc.at = "imageset_makedirs"
    /\ LET r == makedirs(fs, folder_path(name, category), TRUE)
           w == write_file(r.fs, join(folder_path(name, category), "Contents.json"),
                           json_dump(imageset_contents(name)))
       IN  IF r.exc = "none" /\ w.exc = "none"
           THEN /\ fs' = w.fs
                /\ pc' = [pc EXCEPT !.at = "imageset_save", !.scale = 1]
                /\ trace' = Append(trace, Event("emit_begin", name))
                /\ exc' = exc
           ELSE /\ Raise(IF r.exc # "none" THEN r.exc ELSE w.exc)
                /\ UNCHANGED <<fs, trace>>
    /\ UNCHANGED <<prev_fs, image, stdout, run>>
    /\ UNCHANGED primVars

\* lines 16-17
ImagesetMakedirs ==
    /\ pc.at = "imageset_makedirs"
    /\ LET r == makedirs(fs, folder_path(name, category), TRUE)
       IN  IF r.exc = "none"
           THEN /\ fs' = r.fs
                /\ pc' = [pc EXCEPT !.at = "imageset_save", !.scale = 1]
                /\ trace' = Append(trace, Event("emit_begin", name))
                /\ exc' = exc
           ELSE /\ Raise(r.exc)
                /\ UNCHANGED <<fs, trace>>
    /\ UNCHANGED <<prev_fs, image, stdout, run>>
    /\ UNCHANGED primVars

\* lines 20-24, one iteration of for scale in [1, 2, 3]
ImagesetSave ==
    /\ pc.at = "imageset_save"
    /\ LET scale == Scales[pc.scale]
           r == write_file(fs, image_path(name, category, scale),
                           png_save(scaled_img(image, scale)))
       IN  IF r.exc = "none"
           THEN /\ fs' = r.fs
                /\ pc' = IF pc.scale < Len(Scales)
                         THEN [pc EXCEPT !.scale = @ + 1]
                         ELSE [pc EXCEPT !.at = "imageset_contents"]
                /\ exc' = exc
           ELSE /\ Raise(r.exc)
                /\ UNCHANGED fs
    /\ UNCHANGED <<prev_fs, image, stdout, run, trace>>
    /\ UNCHANGED primVars

\* the statement main runs after create_imageset returns
AfterSprite(p) ==
    IF p.i < Len(Blocks[p.block].sprites)
    THEN [p EXCEPT !.at = "generate", !.i = @ + 1, !.scale = 1]
    ELSE IF p.block < Len(Blocks)
    THEN [p EXCEPT !.at = "generate", !.block = @ + 1, !.i = 1, !.scale = 1]
    ELSE [p EXCEPT !.at = "finish", !.scale = 1]

\* lines 27-36
ImagesetContents ==
    /\ pc.at = "imageset_contents"
    /\ LET r == write_file(fs, join(folder_path(name, category), "Contents.json"),
                           json_dump(imageset_contents(name)))
       IN  IF r.exc = "none"
           THEN /\ fs' = r.fs
                /\ pc' = AfterSprite(pc)
                /\ trace' = Append(trace, Event("emit_end", name))
                /\ exc' = exc
           ELSE /\ Raise(r.exc)
                /\ UNCHANGED <<fs, trace>>
    /\ UNCHANGED <<prev_fs, image, stdout, run>>
    /\ UNCHANGED primVars

\* line 760
Finish ==
    /\ pc.at = "finish"
    /\ stdout' = Append(stdout, DoneMessage)
    /\ pc' = [pc EXCEPT !.at = "done"]
    /\ UNCHANGED <<fs, prev_fs, image, exc, run, trace>>
    /\ UNCHANGED primVars

FsSteps == {"main_makedirs", "create_folder_contents", "imageset_makedirs",
            "imageset_save", "imageset_contents"}

\* the file the current step is about to write, <<>> if it writes none
WritePath ==
    IF pc.at = "create_folder_contents"
    THEN join(join(ASSETS_PATH, Categories[pc.i]), "Contents.json")
    ELSE IF pc.at = "imageset_save"
    THEN image_path(name, category, Scales[pc.scale])
    ELSE IF pc.at = "imageset_contents"
    THEN join(folder_path(name, category), "Contents.json")
    ELSE <<>>

\* the operating system refuses the operation (permissions, disk full):
\* nothing is written
IOFault ==
    /\ pc.at \in FsSteps
    /\ Raise("OSError")
    /\ UNCHANGED <<fs, prev_fs, image, stdout, run, trace>>
    /\ UNCHANGED primVars

\* the file is opened, and so created or emptied, and the write fails
IOFaultInWrite ==
    /\ pc.at \in FsSteps
    /\ WritePath # <<>>
    /\ write_file(fs, WritePath, Truncated).exc = "none"
    /\ fs' = write_file(fs, WritePath, Truncated).fs
    /\ Raise("OSError")
    /\ UNCHANGED <<prev_fs, image, stdout, run, trace>>
    /\ UNCHANGED primVars

\* main() is run again on the output the completed run left; MaxRuns bounds
\* the number of runs
Rerun ==
    /\ pc.at = "done"
    /\ run < MaxRuns
    /\ run' = run + 1
    /\ prev_fs' = fs
    /\ pc' = Start
    /\ image' = NoImage
    /\ stdout' = <<>>
    /\ trace' = <<>>
    /\ UNCHANGED <<fs, exc>>
    /\ UNCHANGED primVars

Next ==
    \/ MainMakedirs
    \/ CreateFolderContents
    \/ Generate
    \/ ImagesetMakedirs
    \/ ImagesetSave
    \/ ImagesetContents
    \/ Finish
    \/ IOFault
    \/ IOFaultInWrite
    \/ Rerun

Spec == Init /\ [][Next]_vars

(***************************************************************************)
(* The canvas primitives and the scaling step called on their own: one     *)
(* call on a canvas, with arguments inside and outside the canvas.         *)
(***************************************************************************)
\* how far outside the canvas the arguments of a call reach
Margin == 1

\* the canvases a call is made on: the blank one and drawn ones
InitCanvases ==
    { new_image } \cup
    { Call(f).img : f \in { terrain_wall, terrain_empty_air, creature_dwarf, ui_selection } }

\* color arguments: palette names, a name the palette lacks, a literal
ColorArgs ==
    { Str("wall_dark"), Str("select_yellow"), Str("no_such_color"), Tup(<<1, 2, 3>>) }

PixelCoords == (0 - Margin)..(TILE_SIZE - 1 + Margin)

RectOrigins == { 0 - Margin - 1, 0, 5, TILE_SIZE - 2, TILE_SIZE + Margin }

RectSizes == { 0 - Margin, 0, 1, 3, TILE_SIZE + Margin }

PrimInit ==
    /\ before \in InitCanvases
    /\ canvas = [img |-> before, exc |-> "none"]
    /\ call = NoCall
    /\ scaled = NoImage

InitPrim == MainInit /\ PrimInit

CallDrawPixel ==
    /\ call.fn = "none"
    /\ \E x \in PixelCoords, y \in PixelCoords, color \in ColorArgs :
         /\ call' = [NoCall EXCEPT !.fn = "draw_pixel", !.x = x, !.y = y, !.color = color]
         /\ canvas' = draw_pixel(canvas, x, y, color)
    /\ UNCHANGED <<before, scaled>>
    /\ UNCHANGED mainVars

CallFillRect ==
    /\ call.fn = "none"
    /\ \E x \in RectOrigins, y \in RectOrigins, w \in RectSizes, h \in RectSizes,
          color \in ColorArgs :
         /\ call' = [NoCall EXCEPT !.fn = "fill_rect", !.x = x, !.y = y,
                                   !.w = w, !.h = h, !.color = color]
         /\ canvas' = fill_rect(canvas, x, y, w, h, color)
    /\ UNCHANGED <<before, scaled>>
    /\ UNCHANGED mainVars

\* lines 21-22 for one scale of the loop
CallScaledImg ==
    /\ call.fn = "none"
    /\ \E k \in 1..Len(Scales) :
         /\ call' = [NoCall EXCEPT !.fn = "scaled_img", !.scale = Scales[k]]
         /\ scaled' = scaled_img(canvas.img, Scales[k])
    /\ UNCHANGED <<before, canvas>>
    /\ UNCHANGED mainVars

NextPrim ==
    \/ CallDrawPixel
    \/ CallFillRect
    \/ CallScaledImg

SpecPrim == InitPrim /\ [][NextPrim]_vars

(***************************************************************************)
(* Properties of the canvas primitives, checked under SpecPrim.            *)
(***************************************************************************)
\* the color a defined color argument stands for
Resolved(color) == IF color.isStr THEN COLORS[color.name] ELSE color.tup

Defined(color) == color.isStr => color.name \in DOMAIN COLORS

\* C1: draw_pixel with x or y outside [0,16) returns without raising and
\* leaves every pixel of the canvas unchanged, whatever the color argument
\* is: a palette name, a name the palette lacks, or a literal.
C1_OutOfRangeIsNoOp ==
    (call.fn = "draw_pixel" /\ ~(call.x \in 0..15 /\ call.y \in 0..15))
        => /\ canvas.exc = "none"
           /\ canvas.img = before

\* a call right of the canvas with a name the palette lacks, on a drawn canvas
C1_Witness ==
    /\ call.fn = "draw_pixel"
    /\ call.x = 16 /\ call.y = 3
    /\ call.color = Str("no_such_color")
    /\ before # new_image
    /\ canvas = [img |-> before, exc |-> "none"]

\* C2: after fill_rect(canvas, x, y, w, h, c) with c defined, every pixel in
\* the intersection of [x, x+w) x [y, y+h) with [0,16) x [0,16) is c with
\* alpha 255 and every other pixel is unchanged; a rectangle wholly outside
\* the canvas, or with w <= 0 or h <= 0, changes nothing; the call does not
\* fail.
C2_FillRect ==
    (call.fn = "fill_rect" /\ Defined(call.color))
        => /\ canvas.exc = "none"
           /\ canvas.img.w = 16 /\ canvas.img.h = 16
           /\ \A px \in 0..15, py \in 0..15 :
                getpixel(canvas.img, px, py) =
                    IF /\ call.x <= px /\ px < call.x + call.w
                       /\ call.y <= py /\ py < call.y + call.h
                    THEN Resolved(call.color) \o <<255>>
                    ELSE getpixel(before, px, py)
           /\ (call.w <= 0 \/ call.h <= 0 \/ call.x >= 16 \/ call.y >= 16
               \/ call.x + call.w <= 0 \/ call.y + call.h <= 0)
                  => canvas.img = before

\* a rectangle that crosses the right and bottom edges and changed the canvas
C2_Witness ==
    /\ call.fn = "fill_rect"
    /\ call.x = 14 /\ call.y = 14 /\ call.w = 3 /\ call.h = 3
    /\ call.color = Str("select_yellow")
    /\ canvas.exc = "none"
    /\ getpixel(canvas.img, 15, 15) = <<255, 238, 68, 255>>
    /\ getpixel(canvas.img, 13, 15) = getpixel(before, 13, 15)
    /\ canvas.img # before

\* C5: the image produced at scale s in {2, 3} has size 16s x 16s and every
\* pixel (s*x + i, s*y + j), 0 <= i, j < s, has the RGBA value of source
\* pixel (x, y); the image produced at scale 1 is the canvas, pixel for pixel.
C5_BlockUpscale ==
    call.fn = "scaled_img"
        => LET s == call.scale
           IN  /\ s \in {1, 2, 3}
               /\ scaled.w = 16 * s /\ scaled.h = 16 * s
               /\ Len(scaled.px) = (16 * s) * (16 * s)
               /\ \A x \in 0..15, y \in 0..15 : \A i \in 0..(s - 1), j \in 0..(s - 1) :
                    getpixel(scaled, s * x + i, s * y + j) = getpixel(canvas.img, x, y)
               /\ s = 1 => scaled = canvas.img

\* the 3x image of a canvas with opaque and transparent pixels
C5_Witness ==
    /\ call.fn = "scaled_img"
    /\ call.scale = 3
    /\ scaled.w = 48
    /\ getpixel(canvas.img, 0, 0) # getpixel(canvas.img, 1, 1)
    /\ getpixel(scaled, 2, 2) = getpixel(canvas.img, 0, 0)
    /\ getpixel(scaled, 3, 3) = getpixel(canvas.img, 1, 1)

(***************************************************************************)
(* Properties of a run of main(), checked under Spec.                      *)
(***************************************************************************)
Names(sprites) == [k \in 1..Len(sprites) |-> sprites[k][1]]

\* the driver's order: Terrain, then Creatures, then Items, then the UI sprite
Order ==
    Names(terrain_sprites) \o Names(creature_sprites) \o Names(item_sprites)
        \o <<"ui_selection">>

CategoryOf(n) ==
    IF \E k \in 1..Len(terrain_sprites) : terrain_sprites[k][1] = n THEN "Terrain"
    ELSE IF \E k \in 1..Len(creature_sprites) : creature_sprites[k][1] = n THEN "Creatures"
    ELSE IF \E k \in 1..Len(item_sprites) : item_sprites[k][1] = n THEN "Items"
    ELSE "UI"

\* Root/<Category> and Root/<Category>/<SpriteName>.imageset
CategoryDir(c) == <<"Outpost", "Assets.xcassets", c>>
SpriteDir(n) == <<"Outpost", "Assets.xcassets", CategoryOf(n), n \o ".imageset">>

IsFile(path) == path \in DOMAIN fs.files
IsDir(path) == path \in fs.dirs

\* the sprites whose create_imageset call returned in the current run, in order
Emitted ==
    LET ends == SelectSeq(trace, LAMBDA e : e.ev = "emit_end")
    IN  [k \in 1..Len(ends) |-> ends[k].arg]

\* the image files of sprite n
ImageNames(n) == { n \o ".png", n \o "@2x.png", n \o "@3x.png" }

\* file f of sprite n is an image of side pixels per side
IsImageOfSide(n, f, side) ==
    /\ IsFile(Append(SpriteDir(n), f))
    /\ fs.files[Append(SpriteDir(n), f)].fmt = "png"
    /\ fs.files[Append(SpriteDir(n), f)].data.size = <<side, side>>

\* C3: after create_imageset completes for a sprite, its Contents.json lists
\* exactly three entries, the filenames are exactly the three image files the
\* call wrote (<name>.png, <name>@2x.png, <name>@3x.png), and each entry's
\* scale label "1x", "2x", "3x" is the scale at which that file was produced:
\* 16, 32 and 48 pixels per side.
C3_DescriptorMatchesFiles ==
    \A k \in 1..Len(Emitted) :
        LET n == Emitted[k]
            d == Append(SpriteDir(n), "Contents.json")
        IN  /\ IsFile(d)
            /\ fs.files[d].fmt = "json"
            /\ LET images == fs.files[d].data.images
               IN  /\ Len(images) = 3
                   /\ { images[e].filename : e \in 1..3 } = ImageNames(n)
                   /\ { images[e].filename : e \in 1..3 } = listdir(fs, SpriteDir(n)) \ {"Contents.json"}
                   /\ \A e \in 1..3 :
                        /\ images[e].scale = ToString(e) \o "x"
                        /\ IsImageOfSide(n, images[e].filename, 16 * e)
                   /\ IsImageOfSide(n, n \o ".png", 16)
                   /\ IsImageOfSide(n, n \o "@2x.png", 32)
                   /\ IsImageOfSide(n, n \o "@3x.png", 48)

\* create_imageset has returned for creature_wolf in a run from the empty root
C3_Witness ==
    /\ run = 1
    /\ Len(Emitted) = 20
    /\ Emitted[20] = "creature_wolf"
    /\ IsFile(Append(SpriteDir("creature_wolf"), "Contents.json"))

\* what a category directory holds after a full run
CategoryComplete(c, sprites, count) ==
    /\ Len(sprites) = count
    /\ IsDir(CategoryDir(c))
    /\ IsFile(Append(CategoryDir(c), "Contents.json"))
    /\ fs.files[Append(CategoryDir(c), "Contents.json")].fmt = "json"
    /\ listdir(fs, CategoryDir(c)) =
          {"Contents.json"} \cup { sprites[k][1] \o ".imageset" : k \in 1..Len(sprites) }
    /\ Cardinality(listdir(fs, CategoryDir(c))) = count + 1
    /\ \A k \in 1..Len(sprites) :
          LET n == sprites[k][1]
              d == Append(CategoryDir(c), n \o ".imageset")
          IN  /\ IsDir(d)
              /\ Cardinality(listdir(fs, d)) = 4
              /\ "Contents.json" \in listdir(fs, d)
              /\ fs.files[Append(d, "Contents.json")].fmt = "json"
              /\ Cardinality({ f \in listdir(fs, d) :
                                 /\ IsFile(Append(d, f))
                                 /\ fs.files[Append(d, f)].fmt = "png" }) = 3

\* C4: after a full run of main() from an empty output root, each category
\* directory holds exactly one container descriptor plus one <name>.imageset
\* directory per sprite declared for it (17 in Terrain, terrain_empty_air
\* through terrain_ramp_down; 6 in Creatures; 15 in Items; 1 in UI) and
\* nothing else, and every sprite directory holds exactly 3 image files plus
\* 1 descriptor file.
C4_FullRunLayout ==
    pc.at = "done"
        => /\ CategoryComplete("Terrain", terrain_sprites, 17)
           /\ terrain_sprites[1][1] = "terrain_empty_air"
           /\ terrain_sprites[17][1] = "terrain_ramp_down"
           /\ CategoryComplete("Creatures", creature_sprites, 6)
           /\ CategoryComplete("Items", item_sprites, 15)
           /\ CategoryComplete("UI", ui_sprites, 1)
           /\ listdir(fs, <<"Outpost", "Assets.xcassets">>) = {"Terrain", "Creatures", "Items", "UI"}

\* the first run, started from the empty root, has completed
C4_Witness ==
    /\ run = 1
    /\ pc.at = "done"
    /\ prev_fs = EmptyRoot
    /\ Len(Emitted) = 39

\* pixel (0,0) of the canvas terrain_wall returned, while it is being emitted
WallCanvasPixel(value) ==
    (pc.at \in {"imageset_makedirs", "imageset_save", "imageset_contents"}
       /\ name = "terrain_wall")
        => getpixel(image, 0, 0) = value

\* pixel (0,0) of the 1x image of terrain_wall, which the file
\* terrain_wall.png holds once the scale loop has saved it
WallOutputPixel(value) ==
    (/\ name = "terrain_wall"
     /\ \/ pc.at = "imageset_save" /\ pc.scale > 1
        \/ pc.at = "imageset_contents")
        => LET out == scaled_img(image, 1)
           IN  /\ IsImageOfSide("terrain_wall", "terrain_wall.png", 16)
               /\ fs.files[Append(SpriteDir("terrain_wall"), "terrain_wall.png")] = png_save(out)
               /\ getpixel(out, 0, 0) = value

\* C6 as stated: in the canvas terrain_wall returns, and so in its 1x
\* output, pixel (0,0) is the "wall_dark" color (68, 68, 68) with alpha 255.
C6_Original ==
    /\ WallCanvasPixel(<<68, 68, 68, 255>>)
    /\ WallOutputPixel(<<68, 68, 68, 255>>)

\* C6 amended: in the canvas terrain_wall returns, and so in its 1x output,
\* pixel (0,0) is the "stone_dark" color (88, 88, 88) with alpha 255: the
\* rock face rectangle (0,0,8,6) is drawn over the "wall_dark" base fill.
C6_WallCornerIsStoneDark ==
    /\ COLORS["stone_dark"] = <<88, 88, 88>>
    /\ COLORS["wall_dark"] = <<68, 68, 68>>
    /\ WallCanvasPixel(<<88, 88, 88, 255>>)
    /\ WallOutputPixel(<<88, 88, 88, 255>>)

\* terrain_wall has been drawn and written in full
C6_Witness ==
    /\ name = "terrain_wall"
    /\ pc.at = "imageset_contents"
    /\ image = Call(terrain_wall).img
    /\ IsImageOfSide("terrain_wall", "terrain_wall.png", 16)

IsPrefix(a, b) == Len(a) <= Len(b) /\ a = SubSeq(b, 1, Len(a))

SpriteEvents == {"draw", "emit_begin", "emit_end"}

\* what the run did to sprites so far, in order
SpriteTrace == SelectSeq(trace, LAMBDA e : e.ev \in SpriteEvents)

\* the part of the run before its first sprite event
ScaffoldTrace ==
    IF SpriteTrace = <<>> THEN trace
    ELSE LET first == CHOOSE k \in 1..Len(trace) :
                         /\ trace[k].ev \in SpriteEvents
                         /\ \A j \in 1..(k - 1) : trace[j].ev \notin SpriteEvents
         IN  SubSeq(trace, 1, first - 1)

\* draw, begin of emit, end of emit, sprite by sprite in the driver's order
ExpectedSpriteTrace ==
    Flatten([k \in 1..Len(Order) |->
               << Event("draw", Order[k]), Event("emit_begin", Order[k]),
                  Event("emit_end", Order[k]) >>])

\* C7: in every run of main() the four category directories are created and
\* given their container descriptor before any sprite is emitted; sprites are
\* then emitted one at a time in the order Terrain, Creatures, Items (each in
\* declared order), ui_selection last; each sprite's canvas is drawn before
\* its emit begins and its emit finishes before the next sprite is drawn.
C7_DriverOrder ==
    /\ IsPrefix(SpriteTrace, ExpectedSpriteTrace)
    /\ SpriteTrace # <<>>
          => \A c \in {"Terrain", "Creatures", "Items", "UI"} :
                /\ \E a \in 1..Len(ScaffoldTrace), b \in 1..Len(ScaffoldTrace) :
                      /\ a < b
                      /\ ScaffoldTrace[a] = Event("makedirs", c)
                      /\ ScaffoldTrace[b] = Event("folder_contents", c)
                /\ IsDir(CategoryDir(c))
                /\ IsFile(Append(CategoryDir(c), "Contents.json"))
    /\ Len(Order) = 39
    /\ Order[1] = "terrain_empty_air" /\ Order[17] = "terrain_ramp_down"
    /\ Order[18] = "creature_dwarf" /\ Order[23] = "creature_undead"
    /\ Order[24] = "item_food" /\ Order[38] = "item_ore"
    /\ Order[39] = "ui_selection"

\* a completed run: 8 scaffolding steps, then 39 sprites drawn and emitted
C7_Witness ==
    /\ pc.at = "done"
    /\ Len(trace) = 8 + 3 * 39
    /\ trace[9] = Event("draw", "terrain_empty_air")
    /\ trace[Len(trace)] = Event("emit_end", "ui_selection")

\* C8: running main() a second time on the output of a completed first run
\* raises no error and leaves the filesystem exactly as the first run left
\* it: the same directories and files, each file with the same content.
\* ("OSError" is only ever the operating system refusing an operation.)
C8_RerunIdempotent ==
    run >= 2
        => /\ exc \in {"none", "OSError"}
           /\ pc.at = "done" => fs = prev_fs

\* the second run has completed
C8_Witness ==
    /\ run = 2
    /\ pc.at = "done"
    /\ exc = "none"
    /\ Len(Emitted) = 39
    /\ stdout[Len(stdout)] = DoneMessage
    /\ fs = prev_fs
    /\ fs # EmptyRoot

\* the sprites the current run has drawn, in order
Drawn ==
    LET draws == SelectSeq(trace, LAMBDA e : e.ev = "draw")
    IN  [k \in 1..Len(draws) |-> draws[k].arg]

\* the complete output of sprite n is on disk
FullyEmitted(n) ==
    /\ IsImageOfSide(n, n \o ".png", 16)
    /\ IsImageOfSide(n, n \o "@2x.png", 32)
    /\ IsImageOfSide(n, n \o "@3x.png", 48)
    /\ IsFile(Append(SpriteDir(n), "Contents.json"))
    /\ fs.files[Append(SpriteDir(n), "Contents.json")].fmt = "json"

\* C9: if drawing or emitting the k-th sprite fails, the run stops there: no
\* later sprite is drawn or emitted, the completion message is never printed,
\* and the complete output of sprites 1..k-1 stays on disk, with no rollback
\* or cleanup; so at the end of any run the sprites the run fully emitted are
\* a prefix of the driver's order.
C9_FailureStopsRun ==
    /\ exc # "none" <=> pc.at = "aborted"
    /\ pc.at = "aborted"
          => /\ \A k \in 1..Len(stdout) : stdout[k] # DoneMessage
             /\ ~ ENABLED Next
    /\ (\E k \in 1..Len(stdout) : stdout[k] = DoneMessage)
          => pc.at = "done" /\ Len(Emitted) = 39
    /\ IsPrefix(Emitted, Order)
    /\ IsPrefix(Drawn, Order)
    /\ Len(Drawn) <= Len(Emitted) + 1
    /\ \A k \in 1..Len(Emitted) : FullyEmitted(Emitted[k])
    /\ run = 1
          => \A k \in 1..Len(Order) :
                k > Len(Emitted) + 1 => ~ IsDir(SpriteDir(Order[k]))

\* the first run failed while it emitted its 21st sprite: 20 sprites are on
\* disk in full, the 21st in part
C9_Witness ==
    /\ run = 1
    /\ pc.at = "aborted"
    /\ exc = "OSError"
    /\ Len(Emitted) = 20
    /\ Len(Drawn) = 21
    /\ FullyEmitted(Order[20])
    /\ IsDir(SpriteDir(Order[21]))
    /\ IsFile(Append(SpriteDir(Order[21]), Order[21] \o ".png"))
    /\ ~ IsFile(Append(SpriteDir(Order[21]), "Contents.json"))

\* the bodies of all drawers main calls
Drawers ==
    { terrain_sprites[k][2] : k \in 1..Len(terrain_sprites) }
        \cup { creature_sprites[k][2] : k \in 1..Len(creature_sprites) }
        \cup { item_sprites[k][2] : k \in 1..Len(item_sprites) }
        \cup { ui_sprites[k][2] : k \in 1..Len(ui_sprites) }

\* the palette names the drawers pass to draw_pixel or fill_rect or look up
NamesUsed ==
    UNION { { d[k].color.name : k \in { j \in 1..Len(d) : d[j].color.isStr } } : d \in Drawers }

\* C10: every symbolic color name a drawer passes to draw_pixel or fill_rect,
\* or looks up in COLORS, is a key of COLORS, so no drawer reaches a palette
\* lookup failure during a run.
C10_PaletteCoversDrawers ==
    /\ NamesUsed \subseteq DOMAIN COLORS
    /\ exc # "KeyError"
    /\ pc.at = "generate" => Call(func).exc = "none"

\* a run has called all 39 drawers
C10_Witness ==
    /\ pc.at = "done"
    /\ exc = "none"
    /\ Len(Drawn) = 39
    /\ Cardinality(Drawers) = 39
    /\ {"wall_dark", "select_yellow", "wolf_gray"} \subseteq NamesUsed

(***************************************************************************)
(* Transparency of the canvases of terrain_empty_air and ui_selection.     *)
(***************************************************************************)
\* the pixels of img whose alpha is a, as indices into the raster
AlphaIs(img, a) == { k \in 1..Len(img.px) : img.px[k][4] = a }

\* the pixels of img whose value is v
ValueIs(img, v) == { k \in 1..Len(img.px) : img.px[k] = v }

\* main holds the canvas the drawer of sprite n returned
Holds(n) ==
    /\ pc.at \in {"imageset_makedirs", "imageset_save", "imageset_contents"}
    /\ name = n

\* more than half of the 256 pixels have alpha 0, the others alpha 255
MostlyTransparent(img) ==
    /\ Len(img.px) = 256
    /\ 2 * Cardinality(AlphaIs(img, 0)) > 256
    /\ Cardinality(AlphaIs(img, 0)) + Cardinality(AlphaIs(img, 255)) = 256
    /\ AlphaIs(img, 255) # {}

\* C11 as stated: terrain_empty_air and ui_selection each return a
\* mostly-transparent canvas with a few opaque marks: more than half of the
\* 256 pixels still have alpha 0 and only a small set has alpha 255.
C11_Original ==
    /\ Holds("terrain_empty_air") => MostlyTransparent(image)
    /\ Holds("ui_selection") => MostlyTransparent(image)

\* C11 amended: ui_selection returns a mostly-transparent canvas, 228 pixels
\* of alpha 0 and the 28 pixels of the four corner brackets opaque in
\* "select_yellow" (255, 238, 68); terrain_empty_air returns a canvas with no
\* transparent pixel: its base fill makes all 256 pixels opaque, 251 in the
\* "empty" color (28, 28, 38) and the 5 marks in (48, 48, 58).
C11_EmptyAirOpaqueSelectionTransparent ==
    /\ Holds("ui_selection")
          => /\ MostlyTransparent(image)
             /\ Cardinality(AlphaIs(image, 0)) = 228
             /\ ValueIs(image, <<255, 238, 68, 255>>) = AlphaIs(image, 255)
             /\ ValueIs(image, <<0, 0, 0, 0>>) = AlphaIs(image, 0)
    /\ Holds("terrain_empty_air")
          => /\ Len(image.px) = 256
             /\ AlphaIs(image, 0) = {}
             /\ Cardinality(AlphaIs(image, 255)) = 256
             /\ Cardinality(ValueIs(image, <<28, 28, 38, 255>>)) = 251
             /\ Cardinality(ValueIs(image, <<48, 48, 58, 255>>)) = 5

\* the run that drew terrain_empty_air first now holds the canvas of
\* ui_selection, whose inside is transparent
C11_Witness ==
    /\ Holds("ui_selection")
    /\ Len(Drawn) = 39
    /\ Drawn[1] = "terrain_empty_air"
    /\ image = Call(ui_selection).img
    /\ getpixel(image, 8, 8)[4] = 0
    /\ getpixel(image, 0, 0)[4] = 255
    /\ getpixel(Call(terrain_empty_air).img, 8, 8) = <<28, 28, 38, 255>>

(***************************************************************************)
(* The order of the writes of create_imageset, seen on disk.               *)
(***************************************************************************)
Descriptor(n) == Append(SpriteDir(n), "Contents.json")

\* the image files sprite directory n holds
ImagesOnDisk(n) == { f \in ImageNames(n) : IsFile(Append(SpriteDir(n), f)) }

\* the filenames the descriptor of sprite n lists, if it was written in full
Listed(n) ==
    IF fs.files[Descriptor(n)].fmt = "json"
    THEN { fs.files[Descriptor(n)].data.images[k].filename :
             k \in 1..Len(fs.files[Descriptor(n)].data.images) }
    ELSE {}

\* C12: create_imageset writes the descriptor only after all three image
\* files, so in every reachable state of a run started from an empty output
\* root, the state a failure at any step leaves included, a sprite directory
\* that contains Contents.json also contains <name>.png, <name>@2x.png and
\* <name>@3x.png, and the descriptor lists no file that is missing.  (The
\* converse fails: C12_Witness is a sprite directory with images and no
\* descriptor.)
C12_DescriptorAfterImages ==
    \A k \in 1..Len(Order) :
        LET n == Order[k]
        IN  IsFile(Descriptor(n))
               => /\ IsDir(SpriteDir(n))
                  /\ ImagesOnDisk(n) = ImageNames(n)
                  /\ Cardinality(ImagesOnDisk(n)) = 3
                  /\ Listed(n) \subseteq ImagesOnDisk(n)
                  /\ run = 1 => /\ IsImageOfSide(n, n \o ".png", 16)
                                /\ IsImageOfSide(n, n \o "@2x.png", 32)
                                /\ IsImageOfSide(n, n \o "@3x.png", 48)

\* the first run failed at the save of the 3x image of its second sprite:
\* the first sprite directory holds the descriptor and the three images it
\* lists, the second holds two images and no descriptor
C12_Witness ==
    /\ run = 1
    /\ prev_fs = EmptyRoot
    /\ pc.at = "aborted"
    /\ IsFile(Descriptor(Order[1]))
    /\ Listed(Order[1]) = ImageNames(Order[1])
    /\ ImagesOnDisk(Order[1]) = ImageNames(Order[1])
    /\ listdir(fs, SpriteDir(Order[2])) = { Order[2] \o ".png", Order[2] \o "@2x.png" }
    /\ ~ IsFile(Descriptor(Order[2]))

====
